---- MODULE Spec2Model ----
(***************************************************************************)
(* serial-vault: the signing pipeline (service/sign/handlers_sign.go) and  *)
(* the factory replication client (package sync).                          *)
(*                                                                         *)
(* Spec            the signing service with one worker serving RequestID   *)
(*                 and Serial calls one after another: every request shape *)
(*                 and every datastore and keystore failure.               *)
(* ConcurrentSpec  two workers serving the same devices at once.           *)
(*                 Serial is cut at its database writes: everything up to  *)
(*                 the nonce consume, then model resolution and the        *)
(*                 duplicate check, then sign and persist.  Models and     *)
(*                 sub-stores are read-only here, so these cuts give every *)
(*                 interleaving of the shared state.                       *)
(* SyncSpec        the pull tasks of the factory replication client        *)
(*                 (Accounts, SigningKeys, Models), one run per action.    *)
(* PushSpec        a factory instance that signs for one device, records   *)
(*                 test logs and runs the push tasks SigningLogs and       *)
(*                 TestLogs, one run per action.                           *)
(* StartupSpec     keystore selection at start-up (service.GetKeyStore)    *)
(*                 and its two tests.                                      *)
(***************************************************************************)
EXTENDS Integers, Sequences, FiniteSets, TLC

VARIABLES
    now,          \* wall clock
    nonces,       \* devicenonce table: set of [Nonce, Expiry]
    issued,       \* history: every [Nonce, Expiry, IssuedAt] RequestID returned
    signinglog,   \* signinglog table: sequence of rows, ID = position
    pc,           \* per worker: position in the handler it runs
    req,          \* per worker: the HTTP request being served
    model,        \* per worker: local `model` of Serial
    signingLog,   \* per worker: local `signingLog` of Serial
    serialAssertion, \* per worker: local `serialAssertion` of Serial
    result,       \* per worker: the ErrorResponse returned and the body written
    hist,         \* per worker: what this call did (history)
    accepted,     \* history: per nonce, Serial calls that passed the nonce check
    keypairs,     \* factory keypair table: set of rows
    settings,     \* factory settings table: set of [Code, Data]
    fetches,      \* number of FetchSigningKeys calls answered by the upstream
    lastSigningKeys, \* outcome of the latest SigningKeys run
    cloudSigningLogs, \* upstream: per signing-log ID, the copies it received
                      \* (2 stands for two or more)
    testlogs,     \* factory testlog table: set of rows
    testLogSeq,   \* ID given to the latest testlog row
    cloudTestLogs, \* upstream: per test-log ID, the copies it received
                   \* (2 stands for two or more)
    accounts,     \* factory account table: set of rows
    lastAccounts, \* outcome of the latest Accounts run
    factoryModels, \* factory model table as replicated: set of rows
    lastModels,   \* outcome of the latest Models run
    Environ,      \* service.Environ: the configuration in force
    keystore,     \* what GetKeyStore returned for it
    failedTests   \* the tests of keystore_test.go that reported an error

vars == <<now, nonces, issued, signinglog, pc, req, model,
          signingLog, serialAssertion, result, hist, accepted,
          keypairs, settings, fetches, lastSigningKeys,
          cloudSigningLogs, testlogs, testLogSeq, cloudTestLogs,
          accounts, lastAccounts, factoryModels, lastModels,
          Environ, keystore, failedTests>>

signVars == <<now, nonces, issued, signinglog, pc, req, model,
              signingLog, serialAssertion, result, hist, accepted>>

keyVars == <<keypairs, settings, fetches, lastSigningKeys>>

pushVars == <<cloudSigningLogs, testlogs, testLogSeq, cloudTestLogs>>

pullVars == <<accounts, lastAccounts, factoryModels, lastModels>>

startVars == <<Environ, keystore, failedTests>>

syncVars == <<keyVars, pushVars, pullVars, startVars>>

(***************************************************************************)
(* Bounds                                                                  *)
(***************************************************************************)
MaxNonces == 2      \* nonces RequestID may issue in a run
MaxTime == 2        \* last clock value
MaxFetches == 3     \* upstream answers to FetchSigningKeys in a run
MaxTestLogs == 1    \* test logs the factory records in a run

Procs == {"w1", "w2"}
NonceIDs == 1..MaxNonces
TestLogIDs == 1..MaxTestLogs

Min(a, b) == IF a < b THEN a ELSE b

(***************************************************************************)
(* Database content the signing service only reads                         *)
(***************************************************************************)
NonceTTL == 1

MkModel(brand, name, apiKey, keyID, sealed, active) ==
    [BrandID |-> brand, Name |-> name, APIKey |-> apiKey,
     AuthorityID |-> brand, KeyID |-> keyID, SealedKey |-> sealed,
     KeyActive |-> active]

\* The zero value of datastore.Model, as FindModel returns it with an error.
NoModel == MkModel("", "", "", "", "", FALSE)

Models ==
    { MkModel("acme", "rpi", "K1", "abc", "sealed-abc", TRUE),
      MkModel("acme", "rpi", "K2", "def", "sealed-def", FALSE),
      MkModel("acme", "rpi-alt", "K2", "ghi", "sealed-ghi", TRUE) }

MkSubstore(brand, name, serial, from) ==
    [BrandID |-> brand, ModelName |-> name, SerialNumber |-> serial,
     FromModel |-> from]

NoSubstore == MkSubstore("", "", "", NoModel)

Substores ==
    { MkSubstore("acme", "rpi-alt", "SN2",
                 MkModel("acme", "rpi", "K1", "abc", "sealed-abc", TRUE)),
      MkSubstore("acme", "rpi-new", "SN1",
                 MkModel("acme", "rpi", "K2", "def", "sealed-def", FALSE)) }

(***************************************************************************)
(* Requests                                                                *)
(***************************************************************************)
\* An assertion document of the request stream.  Type "malformed" stands for
\* bytes the decoder rejects; Serial is the `serial` header ("" when the
\* header is absent or empty); BodySerial is the `serial` key of the YAML
\* body ("" when the body has no such key).
Doc(type, brand, name, serial, bodySerial, requestID) ==
    [Type |-> type, BrandID |-> brand, Model |-> name, Serial |-> serial,
     BodySerial |-> bodySerial, RequestID |-> requestID,
     SignKeyID |-> "device-key-1"]

NoDoc == Doc("nil", "", "", "", "", 0)
Malformed == Doc("malformed", "", "", "", "", 0)

SerialRequests ==
    { Doc("serial-request", "acme", m, sb[1], sb[2], n) :
        m \in {"rpi", "rpi-alt", "rpi-new"},
        sb \in {<<"SN1", "">>, <<"SN2", "">>, <<"", "SN1">>, <<"", "">>},
        n \in NonceIDs }

ModelDoc(brand, name) == Doc("model", brand, name, "", "", 0)

\* The streams sent with a given serial-request: alone, followed by its model
\* assertion, and every way of failing the stream and type checks.
Streams(sr) ==
    { <<sr>>,
      <<sr, ModelDoc(sr.BrandID, sr.Model)>>,
      << >>,
      <<Malformed>>,
      <<sr, Malformed>>,
      <<sr, ModelDoc(sr.BrandID, sr.Model), sr>>,
      <<sr, ModelDoc(sr.BrandID, sr.Model), Malformed>>,
      <<ModelDoc(sr.BrandID, sr.Model)>>,
      <<sr, sr>>,
      <<sr, ModelDoc(sr.BrandID, "other")>>,
      <<sr, ModelDoc("other", sr.Model)>>,
      <<ModelDoc(sr.BrandID, sr.Model), Malformed>>,
      <<sr, sr, sr>> }

APIKeys == {"K1", "K2", "bad"}

Request(path, apiKey, stream) ==
    [Path |-> path, APIKey |-> apiKey, Body |-> stream]

NoRequest == Request("", "", << >>)

\* Every well-formed single serial-request under both tenants' keys, and one
\* fixed serial-request under every api key and every stream shape.
Requests ==
    { Request("/serial", k, <<sr>>) : k \in {"K1", "K2"}, sr \in SerialRequests }
    \cup
    { Request("/serial", k, st) : k \in APIKeys,
        st \in Streams(Doc("serial-request", "acme", "rpi", "SN1", "", 1)) }

(***************************************************************************)
(* Responses (package response)                                            *)
(***************************************************************************)
ErrorResponse(success, code, status) ==
    [Success |-> success, Code |-> code, StatusCode |-> status]

StatusBadRequest == 400

\* response.ErrorResponse{Success: true}
Success == ErrorResponse(TRUE, "", 0)
NoResponse == ErrorResponse(FALSE, "pending", 0)

ErrorInvalidAPIKey == ErrorResponse(FALSE, "invalid-api-key", StatusBadRequest)
ErrorEmptyData == ErrorResponse(FALSE, "empty-data", StatusBadRequest)
ErrorInvalidAssertion == ErrorResponse(FALSE, "invalid-assertion", StatusBadRequest)
ErrorInvalidType == ErrorResponse(FALSE, "invalid-type", StatusBadRequest)
ErrorInvalidSecondType == ErrorResponse(FALSE, "invalid-second-type", StatusBadRequest)
ErrorMismatchedModel == ErrorResponse(FALSE, "mismatched-model", StatusBadRequest)
ErrorInvalidNonce == ErrorResponse(FALSE, "invalid-nonce", StatusBadRequest)
ErrorInvalidModel == ErrorResponse(FALSE, "invalid-model", StatusBadRequest)
ErrorInvalidModelSubstore == ErrorResponse(FALSE, "invalid-model-substore", StatusBadRequest)
ErrorInactiveModel == ErrorResponse(FALSE, "inactive-model", StatusBadRequest)
ErrorCreateAssertion == ErrorResponse(FALSE, "create-assertion", StatusBadRequest)
ErrorGenerateNonce == ErrorResponse(FALSE, "generate-nonce", StatusBadRequest)
ErrorSigningAssertion == ErrorResponse(FALSE, "signing-assertion", StatusBadRequest)
ErrorLoggingAssertion == ErrorResponse(FALSE, "logging-assertion", StatusBadRequest)

(***************************************************************************)
(* Request checks of Serial, up to the nonce                                *)
(***************************************************************************)
\* request.CheckModelAPI: the api-key header must belong to a model tenant.
CheckModelAPI(r) ==
    IF \E m \in Models : m.APIKey = r.APIKey
    THEN [apiKey |-> r.APIKey, err |-> "nil"]
    ELSE [apiKey |-> "", err |-> "invalid"]

\* The n-th dec.Decode() on the request body.
Decode(body, n) ==
    IF n > Len(body) THEN [assertion |-> NoDoc, err |-> "EOF"]
    ELSE IF body[n].Type = "malformed" THEN [assertion |-> NoDoc, err |-> "parse"]
    ELSE [assertion |-> body[n], err |-> "nil"]

\* Faulty variant of SerialDecode: the type of the first assertion is checked
\* before the rest of the stream is decoded.
SerialDecode_TypeFirst(r) ==
    LET auth == CheckModelAPI(r)
        d1 == Decode(r.Body, 1)
        d2 == Decode(r.Body, 2)
        d3 == Decode(r.Body, 3)
        assertion == d1.assertion
        modelAssert == d2.assertion
        fail(resp) == [resp |-> resp, assertion |-> NoDoc, apiKey |-> auth.apiKey]
    IN  IF auth.err # "nil" THEN fail(ErrorInvalidAPIKey)
        ELSE IF d1.err = "EOF" THEN fail(ErrorEmptyData)
        ELSE IF d1.err # "nil" THEN fail(ErrorInvalidAssertion)
        ELSE IF assertion.Type # "serial-request" THEN fail(ErrorInvalidType)
        ELSE IF d2.err # "nil" /\ d2.err # "EOF" THEN fail(ErrorInvalidAssertion)
        ELSE IF d3.err # "EOF" THEN fail(ErrorInvalidAssertion)
        ELSE IF modelAssert # NoDoc /\ modelAssert.Type # "model"
             THEN fail(ErrorInvalidSecondType)
        ELSE IF modelAssert # NoDoc
                /\ (modelAssert.BrandID # assertion.BrandID
                    \/ modelAssert.Model # assertion.Model)
             THEN fail(ErrorMismatchedModel)
        ELSE [resp |-> Success, assertion |-> assertion, apiKey |-> auth.apiKey]

\* Serial from its entry to the model double check: the response of the first
\* failing check, or Success with the decoded serial-request.
SerialDecode(r) ==
    LET auth == CheckModelAPI(r)
        d1 == Decode(r.Body, 1)
        d2 == Decode(r.Body, 2)
        d3 == Decode(r.Body, 3)
        assertion == d1.assertion
        modelAssert == d2.assertion
        fail(resp) == [resp |-> resp, assertion |-> NoDoc, apiKey |-> auth.apiKey]
    IN  IF auth.err # "nil" THEN fail(ErrorInvalidAPIKey)
        ELSE IF d1.err = "EOF" THEN fail(ErrorEmptyData)
        ELSE IF d1.err # "nil" THEN fail(ErrorInvalidAssertion)
        ELSE IF d2.err # "nil" /\ d2.err # "EOF" THEN fail(ErrorInvalidAssertion)
        ELSE IF d3.err # "EOF" THEN fail(ErrorInvalidAssertion)
        ELSE IF assertion.Type # "serial-request" THEN fail(ErrorInvalidType)
        ELSE IF modelAssert # NoDoc /\ modelAssert.Type # "model"
             THEN fail(ErrorInvalidSecondType)
        ELSE IF modelAssert # NoDoc
                /\ (modelAssert.BrandID # assertion.BrandID
                    \/ modelAssert.Model # assertion.Model)
             THEN fail(ErrorMismatchedModel)
        ELSE [resp |-> Success, assertion |-> assertion, apiKey |-> auth.apiKey]

(***************************************************************************)
(* Device nonces (datastore)                                               *)
(***************************************************************************)
\* DeleteExpiredDeviceNonces: drop every row whose expiry is before now.
DeleteExpiredDeviceNonces(rows, t) == { n \in rows : ~(n.Expiry < t) }

\* CreateDeviceNonce: a value never issued before, expiring TTL from now.
CreateDeviceNonce(t) == [Nonce |-> Cardinality(issued) + 1, Expiry |-> t + NonceTTL]

\* ValidateDeviceNonce: one conditional delete; nil iff it removed a row.
ValidateDeviceNonce(rows, nonce, t) ==
    LET hit == { n \in rows : n.Nonce = nonce /\ n.Expiry >= t }
    IN  [err |-> IF Cardinality(hit) = 1 THEN "nil" ELSE "invalid",
         nonces |-> rows \ hit]

\* `if err != nil` after ValidateDeviceNonce.  Faulty variant: the error is
\* ignored.
NonceRejected_Ignored(err) == FALSE

NonceRejected(err) == err # "nil"

(***************************************************************************)
(* Model resolution                                                        *)
(***************************************************************************)
\* datastore FindModel: the model row of (brand, model) under the api key.
FindModel(brand, name, apiKey) ==
    LET hit == { m \in Models :
                   m.BrandID = brand /\ m.Name = name /\ m.APIKey = apiKey }
    IN  IF hit = {} THEN [model |-> NoModel, err |-> "not-found"]
        ELSE [model |-> CHOOSE m \in hit : TRUE, err |-> "nil"]

\* datastore GetSubstoreModel: the sub-store row of (brand, model, serial).
GetSubstoreModel(brand, name, serial) ==
    LET hit == { s \in Substores :
                   s.BrandID = brand /\ s.ModelName = name
                   /\ s.SerialNumber = serial }
    IN  IF hit = {} THEN [substore |-> NoSubstore, err |-> "not-found"]
        ELSE [substore |-> CHOOSE s \in hit : TRUE, err |-> "nil"]

\* `if substore.FromModel.APIKey != apiKey`.  Faulty variant: any key passes.
SubstoreKeyMismatch_Never(substore, apiKey) == FALSE

SubstoreKeyMismatch(substore, apiKey) == substore.FromModel.APIKey # apiKey

\* Faulty variant of findModel: the sub-store is asked first, the direct
\* lookup is the fallback.
findModel_SubstoreFirst(assertion, apiKey) ==
    LET direct == FindModel(assertion.BrandID, assertion.Model, apiKey)
        sub == GetSubstoreModel(assertion.BrandID, assertion.Model, assertion.Serial)
    IN  IF sub.err = "nil" /\ ~SubstoreKeyMismatch(sub.substore, apiKey)
        THEN [model |-> sub.substore.FromModel, resp |-> Success,
              direct |-> FALSE, substoreQueried |-> TRUE]
        ELSE IF direct.err = "nil"
        THEN [model |-> direct.model, resp |-> Success,
              direct |-> TRUE, substoreQueried |-> TRUE]
        ELSE [model |-> direct.model, resp |-> ErrorInvalidModelSubstore,
              direct |-> FALSE, substoreQueried |-> TRUE]

\* Faulty variant of findModel: a pivot returns `model` (the zero value left
\* by the failed direct lookup) instead of substore.FromModel.
findModel_PivotKeepsDirect(assertion, apiKey) ==
    LET direct == FindModel(assertion.BrandID, assertion.Model, apiKey)
        sub == GetSubstoreModel(assertion.BrandID, assertion.Model, assertion.Serial)
    IN  IF direct.err = "nil"
        THEN [model |-> direct.model, resp |-> Success,
              direct |-> TRUE, substoreQueried |-> FALSE]
        ELSE IF sub.err # "nil"
        THEN [model |-> direct.model, resp |-> ErrorInvalidModelSubstore,
              direct |-> FALSE, substoreQueried |-> TRUE]
        ELSE IF SubstoreKeyMismatch(sub.substore, apiKey)
        THEN [model |-> sub.substore.FromModel, resp |-> ErrorInvalidModelSubstore,
              direct |-> FALSE, substoreQueried |-> TRUE]
        ELSE [model |-> direct.model, resp |-> Success,
              direct |-> FALSE, substoreQueried |-> TRUE]

\* findModel: the direct lookup, then the sub-store of the `serial` header.
\* direct / substoreQueried record which lookups ran.
findModel(assertion, apiKey) ==
    LET direct == FindModel(assertion.BrandID, assertion.Model, apiKey)
        sub == GetSubstoreModel(assertion.BrandID, assertion.Model, assertion.Serial)
    IN  IF direct.err = "nil"
        THEN [model |-> direct.model, resp |-> Success,
              direct |-> TRUE, substoreQueried |-> FALSE]
        ELSE IF sub.err # "nil"
        THEN [model |-> direct.model, resp |-> ErrorInvalidModelSubstore,
              direct |-> FALSE, substoreQueried |-> TRUE]
        ELSE IF SubstoreKeyMismatch(sub.substore, apiKey)
        THEN [model |-> sub.substore.FromModel, resp |-> ErrorInvalidModelSubstore,
              direct |-> FALSE, substoreQueried |-> TRUE]
        ELSE [model |-> sub.substore.FromModel, resp |-> Success,
              direct |-> FALSE, substoreQueried |-> TRUE]

(***************************************************************************)
(* Signing log and the serial assertion                                    *)
(***************************************************************************)
MkSigningLog(id, make, name, serial, fingerprint, revision, synced) ==
    [ID |-> id, Make |-> make, Model |-> name, SerialNumber |-> serial,
     Fingerprint |-> fingerprint, Revision |-> revision, Synced |-> synced]

NoSigningLog == MkSigningLog(0, "", "", "", "", 0, FALSE)

SameDevice(row, sl) ==
    row.Make = sl.Make /\ row.Model = sl.Model /\ row.SerialNumber = sl.SerialNumber

RECURSIVE MaxOf(_)
MaxOf(S) ==
    IF S = {} THEN 0
    ELSE LET x == CHOOSE y \in S : TRUE
             m == MaxOf(S \ {x})
         IN  IF x > m THEN x ELSE m

\* datastore CheckForDuplicate over the rows of the table.
CheckForDuplicate(rows, sl) ==
    LET prior == { i \in 1..Len(rows) : SameDevice(rows[i], sl) }
    IN  [duplicateExists |-> prior # {},
         maxRevision |-> MaxOf({ rows[i].Revision : i \in prior })]

\* datastore CreateSigningLog: append the row under the next ID.
CreateSigningLog(rows, sl) ==
    Append(rows, [sl EXCEPT !.ID = Len(rows) + 1])

\* fmt.Sprintf("%d", n) for n >= 0: the decimal digits.
RECURSIVE Sprintf_d(_)
Sprintf_d(n) ==
    IF n < 10 THEN <<n>> ELSE Append(Sprintf_d(n \div 10), n % 10)

NoAssertion ==
    [type |-> "nil", authorityID |-> "", brandID |-> "", serial |-> "",
     signKey |-> "", deviceKeySha |-> "", model |-> "", timestamp |-> 0,
     revision |-> << >>]

\* `signingLog.Revision = maxRevision + 1`.  Faulty variant: the revision is
\* not incremented.
NextRevision_Same(maxRevision) == maxRevision

NextRevision(maxRevision) == maxRevision + 1

\* serialRequestToSerial: fault names the call that returns an error, if any.
\* The device-key and body-length headers are copied through unchanged and
\* are left out of the header map.
serialRequestToSerial(assertion, sl, rows, t, fault) ==
    LET serial == IF assertion.Serial = "" THEN assertion.BodySerial
                  ELSE assertion.Serial
        sl1 == [sl EXCEPT !.SerialNumber = serial]
        dup == CheckForDuplicate(rows, sl1)
        sl2 == [sl1 EXCEPT !.Revision = NextRevision(dup.maxRevision)]
        headers ==
            [type |-> "serial", authorityID |-> assertion.BrandID,
             brandID |-> assertion.BrandID, serial |-> serial,
             signKey |-> assertion.SignKeyID,
             deviceKeySha |-> assertion.SignKeyID,
             model |-> assertion.Model, timestamp |-> t,
             revision |-> Sprintf_d(sl2.Revision)]
    IN  IF serial = ""
        THEN [assertion |-> NoAssertion, err |-> "empty-serial",
              signingLog |-> sl, duplicateExists |-> FALSE]
        ELSE IF fault = "CheckForDuplicate"
        THEN [assertion |-> NoAssertion, err |-> "duplicate-assertion",
              signingLog |-> sl1, duplicateExists |-> FALSE]
        ELSE IF fault = "Assemble"
        THEN [assertion |-> NoAssertion, err |-> "assemble",
              signingLog |-> sl2, duplicateExists |-> dup.duplicateExists]
        ELSE [assertion |-> headers, err |-> "nil",
              signingLog |-> sl2, duplicateExists |-> dup.duplicateExists]

\* KeypairDB.SignAssertion: what was signed and with which key.
NoSigned == [assertion |-> NoAssertion, AuthorityID |-> "", KeyID |-> "",
             SealedKey |-> ""]

SignAssertion(headers, authorityID, keyID, sealedKey) ==
    [assertion |-> headers, AuthorityID |-> authorityID, KeyID |-> keyID,
     SealedKey |-> sealedKey]

(***************************************************************************)
(* The signing service                                                     *)
(***************************************************************************)
(***************************************************************************)
(* Keystore selection (service.GetKeyStore)                                *)
(***************************************************************************)
ConfigSettings(type, path, secret) ==
    [KeyStoreType |-> type, KeyStorePath |-> path, KeyStoreSecret |-> secret]

NoEnv == [Config |-> ConfigSettings("unset", "", "")]

KeyStoreTypes == {"filesystem", "encrypted", "database", "tpm2.0", "invalid", ""}
KeyStorePaths == {"../keystore", "/var/lib/keystore", ""}
KeyStoreSecrets == {"", "secret-1", "secret-2"}

Configs ==
    { ConfigSettings(t, path, secret) :
        t \in KeyStoreTypes, path \in KeyStorePaths, secret \in KeyStoreSecrets }

RecognizedKeyStoreTypes == {"filesystem", "encrypted"}

NilKeyStore == [Type |-> "nil", Path |-> ""]
NoKeyStore == [keystore |-> NilKeyStore, err |-> "pending"]

\* Faulty variant of GetKeyStore: every type yields a keystore.
GetKeyStore_AnyType(config) ==
    [keystore |-> [Type |-> config.KeyStoreType, Path |-> config.KeyStorePath],
     err |-> "nil"]

\* GetKeyStore: the keystore variant of a recognised type, else an error.
GetKeyStore(config) ==
    IF config.KeyStoreType \in RecognizedKeyStoreTypes
    THEN [keystore |-> [Type |-> config.KeyStoreType,
                        Path |-> config.KeyStorePath],
          err |-> "nil"]
    ELSE [keystore |-> NilKeyStore, err |-> "configuration-error"]

\* Start-up reads the configuration ...
ReadConfig(config) ==
    /\ Environ' = [Config |-> config]
    /\ keystore' = NoKeyStore
    /\ UNCHANGED failedTests
    /\ UNCHANGED <<signVars, keyVars, pushVars, pullVars>>

\* ... and selects the keystore for it.
OpenKeyStore ==
    /\ Environ # NoEnv /\ keystore = NoKeyStore
    /\ keystore' = GetKeyStore(Environ.Config)
    /\ UNCHANGED <<Environ, failedTests>>
    /\ UNCHANGED <<signVars, keyVars, pushVars, pullVars>>

TestGetKeyStoreFilesystem ==
    LET config == ConfigSettings("filesystem", "../keystore", "")
        r == GetKeyStore(config)
    IN  /\ Environ' = [Config |-> config]
        /\ keystore' = r
        /\ failedTests' =
             IF r.err # "nil" \/ r.keystore = NilKeyStore
             THEN failedTests \cup {"TestGetKeyStoreFilesystem"}
             ELSE failedTests
        /\ UNCHANGED <<signVars, keyVars, pushVars, pullVars>>

TestGetKeyStoreInvalid ==
    LET config == ConfigSettings("invalid", "../keystore", "")
        r == GetKeyStore(config)
    IN  /\ Environ' = [Config |-> config]
        /\ keystore' = r
        /\ failedTests' =
             IF r.err = "nil"
             THEN failedTests \cup {"TestGetKeyStoreInvalid"}
             ELSE failedTests
        /\ UNCHANGED <<signVars, keyVars, pushVars, pullVars>>

NoHist ==
    [NonceOK |-> FALSE, Resolution |-> NoResponse, Direct |-> FALSE,
     SubstoreQueried |-> FALSE, Duplicate |-> FALSE, Faults |-> {},
     Signed |-> NoSigned, Logged |-> {}]

\* What a handler returned and wrote: the ErrorResponse, the signed assertion
\* (Serial) and the request-id (RequestID).
Result(resp, body, requestID) ==
    [resp |-> resp, body |-> body, RequestID |-> requestID]

NoResult == Result(NoResponse, NoSigned, 0)

Init ==
    /\ now = 0
    /\ nonces = {}
    /\ issued = {}
    /\ signinglog = << >>
    /\ pc = [p \in Procs |-> "idle"]
    /\ req = [p \in Procs |-> NoRequest]
    /\ model = [p \in Procs |-> NoModel]
    /\ signingLog = [p \in Procs |-> NoSigningLog]
    /\ serialAssertion = [p \in Procs |-> NoAssertion]
    /\ result = [p \in Procs |-> NoResult]
    /\ hist = [p \in Procs |-> NoHist]
    /\ accepted = [n \in NonceIDs |-> 0]
    /\ keypairs = {}
    /\ settings = {}
    /\ fetches = 0
    /\ lastSigningKeys = "none"
    /\ cloudSigningLogs = [id \in NonceIDs |-> 0]
    /\ testlogs = {}
    /\ testLogSeq = 0
    /\ cloudTestLogs = [id \in TestLogIDs |-> 0]
    /\ accounts = {}
    /\ lastAccounts = "none"
    /\ factoryModels = {}
    /\ lastModels = "none"
    /\ Environ = NoEnv
    /\ keystore = NoKeyStore
    /\ failedTests = {}

\* The clock advances.
Tick ==
    /\ now < MaxTime
    /\ now' = now + 1
    /\ UNCHANGED <<nonces, issued, signinglog, pc, req, model, signingLog,
                   serialAssertion, result, hist, accepted>>
    /\ UNCHANGED syncVars

\* A handler ends with response resp, the signed body and the request-id.
Finish(p, resp, body, requestID) ==
    /\ pc' = [pc EXCEPT ![p] = "done"]
    /\ result' = [result EXCEPT ![p] = Result(resp, body, requestID)]

\* RequestID served by worker p for api key k; fault names the datastore
\* call that returns an error, if any.
RequestID(p, k, fault) ==
    LET r == Request("/request-id", k, << >>)
        auth == CheckModelAPI(r)
        swept == DeleteExpiredDeviceNonces(nonces, now)
        nonce == CreateDeviceNonce(now)
    IN  /\ pc[p] = "idle"
        /\ (auth.err = "nil" /\ fault = "none") => Cardinality(issued) < MaxNonces
        /\ req' = [req EXCEPT ![p] = r]
        /\ IF auth.err # "nil"
           THEN /\ Finish(p, ErrorInvalidAPIKey, NoSigned, 0)
                /\ UNCHANGED <<nonces, issued, hist>>
           ELSE IF fault = "DeleteExpiredDeviceNonces"
           THEN /\ Finish(p, ErrorGenerateNonce, NoSigned, 0)
                /\ hist' = [hist EXCEPT ![p].Faults = {fault}]
                /\ UNCHANGED <<nonces, issued>>
           ELSE IF fault = "CreateDeviceNonce"
           THEN /\ Finish(p, ErrorGenerateNonce, NoSigned, 0)
                /\ hist' = [hist EXCEPT ![p].Faults = {fault}]
                /\ nonces' = swept
                /\ UNCHANGED issued
           ELSE /\ Finish(p, Success, NoSigned, nonce.Nonce)
                /\ nonces' = swept \cup {nonce}
                /\ issued' = issued \cup
                     {[Nonce |-> nonce.Nonce, Expiry |-> nonce.Expiry,
                       IssuedAt |-> now]}
                /\ UNCHANGED hist
        /\ UNCHANGED <<now, signinglog, model, signingLog, serialAssertion,
                       accepted>>
        /\ UNCHANGED syncVars

\* Serial, from its entry to the nonce check.
SerialValidate(p, r) ==
    LET d == SerialDecode(r)
        v == ValidateDeviceNonce(nonces, d.assertion.RequestID, now)
    IN  /\ pc[p] = "idle"
        /\ req' = [req EXCEPT ![p] = r]
        /\ IF ~d.resp.Success
           THEN /\ Finish(p, d.resp, NoSigned, 0)
                /\ UNCHANGED <<nonces, hist, accepted>>
           ELSE /\ nonces' = v.nonces
                /\ IF NonceRejected(v.err)
                   THEN /\ Finish(p, ErrorInvalidNonce, NoSigned, 0)
                        /\ UNCHANGED <<hist, accepted>>
                   ELSE /\ pc' = [pc EXCEPT ![p] = "resolve"]
                        /\ hist' = [hist EXCEPT ![p].NonceOK = TRUE]
                        /\ accepted' =
                             [accepted EXCEPT ![d.assertion.RequestID] =
                                Min(@ + 1, 2)]
                        /\ UNCHANGED result
        /\ UNCHANGED <<now, issued, signinglog, model, signingLog,
                       serialAssertion>>
        /\ UNCHANGED syncVars

\* `if !model.KeyActive`.  Faulty variant: an inactive key passes.
KeyInactive_Never(m) == FALSE

KeyInactive(m) == ~m.KeyActive

\* Serial, from findModel to serialRequestToSerial.
SerialConvert(p, fault) ==
    LET d == SerialDecode(req[p])
        fm == findModel(d.assertion, d.apiKey)
        sl0 == MkSigningLog(0, d.assertion.BrandID, d.assertion.Model, "",
                            d.assertion.SignKeyID, 0, FALSE)
        c == serialRequestToSerial(d.assertion, sl0, signinglog, now, fault)
        h == [hist[p] EXCEPT !.Resolution = fm.resp,
                             !.Direct = fm.direct,
                             !.SubstoreQueried = fm.substoreQueried]
    IN  /\ pc[p] = "resolve"
        /\ model' = [model EXCEPT ![p] = fm.model]
        /\ IF ~fm.resp.Success
           THEN /\ Finish(p, fm.resp, NoSigned, 0)
                /\ hist' = [hist EXCEPT ![p] = h]
                /\ UNCHANGED <<signingLog, serialAssertion>>
           ELSE IF KeyInactive(fm.model)
           THEN /\ Finish(p, ErrorInactiveModel, NoSigned, 0)
                /\ hist' = [hist EXCEPT ![p] = h]
                /\ UNCHANGED <<signingLog, serialAssertion>>
           ELSE /\ signingLog' = [signingLog EXCEPT ![p] = c.signingLog]
                /\ serialAssertion' = [serialAssertion EXCEPT ![p] = c.assertion]
                /\ hist' = [hist EXCEPT ![p] =
                              [h EXCEPT !.Duplicate = c.duplicateExists,
                                        !.Faults = IF c.err \in {"nil", "empty-serial"}
                                                   THEN {} ELSE {fault}]]
                /\ IF c.err # "nil"
                   THEN Finish(p, ErrorCreateAssertion, NoSigned, 0)
                   ELSE /\ pc' = [pc EXCEPT ![p] = "sign"]
                        /\ UNCHANGED result
        /\ UNCHANGED <<now, nonces, issued, signinglog, req, accepted>>
        /\ UNCHANGED syncVars

\* `if err != nil` after CreateSigningLog.  Faulty variant: the error is
\* ignored.
LogFailed_Ignored(err) == FALSE

LogFailed(err) == err # "nil"

\* Serial, from SignAssertion to the response.
SerialSign(p, fault) ==
    LET signed == SignAssertion(serialAssertion[p], model[p].AuthorityID,
                                model[p].KeyID, model[p].SealedKey)
        rows == CreateSigningLog(signinglog, signingLog[p])
        logErr == IF fault = "CreateSigningLog" THEN "error" ELSE "nil"
    IN  /\ pc[p] = "sign"
        /\ IF fault = "SignAssertion"
           THEN /\ Finish(p, ErrorSigningAssertion, NoSigned, 0)
                /\ hist' = [hist EXCEPT ![p].Faults = @ \cup {fault}]
                /\ UNCHANGED signinglog
           ELSE /\ signinglog' = IF logErr = "nil" THEN rows ELSE signinglog
                /\ hist' = [hist EXCEPT
                              ![p].Signed = signed,
                              ![p].Faults = IF logErr = "nil" THEN @
                                            ELSE @ \cup {fault},
                              ![p].Logged = IF logErr = "nil" THEN {Len(rows)}
                                            ELSE {}]
                /\ IF LogFailed(logErr)
                   THEN Finish(p, ErrorLoggingAssertion, NoSigned, 0)
                   ELSE Finish(p, Success, signed, 0)
        /\ UNCHANGED <<now, nonces, issued, req, model, signingLog,
                       serialAssertion, accepted>>
        /\ UNCHANGED syncVars

\* The handler has returned; the worker takes the next request.
Return(p) ==
    /\ pc[p] = "done"
    /\ pc' = [pc EXCEPT ![p] = "idle"]
    /\ req' = [req EXCEPT ![p] = NoRequest]
    /\ model' = [model EXCEPT ![p] = NoModel]
    /\ signingLog' = [signingLog EXCEPT ![p] = NoSigningLog]
    /\ serialAssertion' = [serialAssertion EXCEPT ![p] = NoAssertion]
    /\ result' = [result EXCEPT ![p] = NoResult]
    /\ hist' = [hist EXCEPT ![p] = NoHist]
    /\ UNCHANGED <<now, nonces, issued, signinglog, accepted>>
    /\ UNCHANGED syncVars

\* One worker, every request and every datastore fault.
Worker == {"w1"}
RequestIDFaults == {"none", "DeleteExpiredDeviceNonces", "CreateDeviceNonce"}
ConvertFaults == {"none", "CheckForDuplicate", "Assemble"}
SignFaults == {"none", "SignAssertion", "CreateSigningLog"}

Next ==
    \/ Tick
    \/ \E p \in Worker, k \in APIKeys, fault \in RequestIDFaults :
            RequestID(p, k, fault)
    \/ \E p \in Worker, r \in Requests : SerialValidate(p, r)
    \/ \E p \in Worker, fault \in ConvertFaults : SerialConvert(p, fault)
    \/ \E p \in Worker, fault \in SignFaults : SerialSign(p, fault)
    \/ \E p \in Worker : Return(p)

Spec == Init /\ [][Next]_vars

\* Two workers serving the same devices concurrently: the requests of two
\* devices, each under every nonce; the only fault is a failed log write.
ConcurrentRequests ==
    { Request("/serial", "K1", <<Doc("serial-request", "acme", m, "SN2", "", n)>>) :
        m \in {"rpi", "rpi-alt"}, n \in NonceIDs }

NextConcurrent ==
    \/ Tick
    \/ \E p \in Procs : RequestID(p, "K1", "none")
    \/ \E p \in Procs, r \in ConcurrentRequests : SerialValidate(p, r)
    \/ \E p \in Procs : SerialConvert(p, "none")
    \/ \E p \in Procs, fault \in {"none", "CreateSigningLog"} : SerialSign(p, fault)
    \/ \E p \in Procs : Return(p)

ConcurrentSpec == Init /\ [][NextConcurrent]_vars

(***************************************************************************)
(* Factory replication: SigningKeys                                        *)
(***************************************************************************)
\* The keypairs the cloud holds, by public identity.
UpstreamKeypairs ==
    << [AuthorityID |-> "acme", KeyID |-> "abc"],
       [AuthorityID |-> "acme", KeyID |-> "def"],
       [AuthorityID |-> "acme", KeyID |-> "ghi"] >>

\* FetchSigningKeys, answer number gen: every keypair sealed afresh, so the
\* sealed key and the auth-key hash differ from answer to answer.
FetchSigningKeys(gen) ==
    [i \in 1..Len(UpstreamKeypairs) |->
        [AuthorityID |-> UpstreamKeypairs[i].AuthorityID,
         KeyID |-> UpstreamKeypairs[i].KeyID,
         SealedKey |-> <<"sealed", UpstreamKeypairs[i].KeyID, gen>>,
         AuthKeyHash |-> <<"hash", UpstreamKeypairs[i].KeyID, gen>>]]

SamePublicID(row, authorityID, keyID) ==
    row.AuthorityID = authorityID /\ row.KeyID = keyID

\* datastore GetKeypairByPublicID: nil iff the keypair is stored.
GetKeypairByPublicID(rows, authorityID, keyID) ==
    IF \E row \in rows : SamePublicID(row, authorityID, keyID)
    THEN "nil" ELSE "not-found"

\* datastore SyncKeypair: store the keypair under its public identity.
SyncKeypair(rows, k) ==
    { row \in rows : ~SamePublicID(row, k.AuthorityID, k.KeyID) }
    \cup {[AuthorityID |-> k.AuthorityID, KeyID |-> k.KeyID,
           SealedKey |-> k.SealedKey]}

\* crypt.GenerateAuthKey: the settings code of a keypair.
GenerateAuthKey(authorityID, keyID) == <<authorityID, "/", keyID>>

\* datastore PutSetting: store the setting under its code.
PutSetting(rows, setting) ==
    { row \in rows : row.Code # setting.Code } \cup {setting}

\* `if err == nil { continue }` after GetKeypairByPublicID.  Faulty variant:
\* the keypair is stored again.
AlreadySynced_Never(err) == FALSE

AlreadySynced(err) == err = "nil"

NoFault == [at |-> 0, call |-> "none"]

\* The loop of SigningKeys from entry i on; fault names the entry and the
\* datastore call that returns an error there, if it is reached.
RECURSIVE SyncKeypairs(_, _, _, _, _)
SyncKeypairs(list, i, kp, st, fault) ==
    IF i > Len(list) THEN [keypairs |-> kp, settings |-> st, err |-> "nil"]
    ELSE LET k == list[i]
             setting == [Code |-> GenerateAuthKey(k.AuthorityID, k.KeyID),
                         Data |-> k.AuthKeyHash]
         IN  IF AlreadySynced(GetKeypairByPublicID(kp, k.AuthorityID, k.KeyID))
             THEN SyncKeypairs(list, i + 1, kp, st, fault)
             ELSE IF fault = [at |-> i, call |-> "SyncKeypair"]
             THEN [keypairs |-> kp, settings |-> st, err |-> "SyncKeypair"]
             ELSE IF fault = [at |-> i, call |-> "PutSetting"]
             THEN [keypairs |-> SyncKeypair(kp, k), settings |-> st,
                   err |-> "PutSetting"]
             ELSE SyncKeypairs(list, i + 1, SyncKeypair(kp, k),
                               PutSetting(st, setting), fault)

\* One run of SigningKeys; fetch is the upstream's answer.
SigningKeys(fetch, fault) ==
    LET out == SyncKeypairs(FetchSigningKeys(fetches + 1), 1, keypairs,
                            settings, fault)
    IN  /\ IF fetch # "ok"
           THEN /\ lastSigningKeys' = fetch
                /\ UNCHANGED <<keypairs, settings, fetches>>
           ELSE /\ fetches < MaxFetches
                /\ fetches' = fetches + 1
                /\ keypairs' = out.keypairs
                /\ settings' = out.settings
                /\ lastSigningKeys' = out.err
        /\ UNCHANGED signVars
        /\ UNCHANGED pushVars
        /\ UNCHANGED pullVars
        /\ UNCHANGED startVars

SyncFaults ==
    {NoFault} \cup [at : 1..Len(UpstreamKeypairs), call : {"SyncKeypair", "PutSetting"}]

(***************************************************************************)
(* Factory replication: Accounts and Models                                *)
(***************************************************************************)
\* The accounts and the models the cloud holds.
UpstreamAccounts ==
    << [AuthorityID |-> "acme"], [AuthorityID |-> "globex"] >>

UpstreamModels ==
    << [BrandID |-> "acme", Name |-> "rpi"],
       [BrandID |-> "acme", Name |-> "rpi-alt"] >>

\* datastore SyncAccount: store the account under its authority-id.
SyncAccount(rows, a) ==
    { row \in rows : row.AuthorityID # a.AuthorityID } \cup {a}

\* The loop of Accounts from entry i on; fault is the entry at which
\* SyncAccount returns an error (0: none).
RECURSIVE SyncAccounts(_, _, _, _)
SyncAccounts(list, i, rows, fault) ==
    IF i > Len(list) THEN [accounts |-> rows, err |-> "nil"]
    ELSE IF fault = i THEN [accounts |-> rows, err |-> "SyncAccount"]
    ELSE SyncAccounts(list, i + 1, SyncAccount(rows, list[i]), fault)

\* One run of Accounts; fetch is the upstream's answer to FetchAccounts.
Accounts(fetch, fault) ==
    LET out == SyncAccounts(UpstreamAccounts, 1, accounts, fault)
    IN  /\ IF fetch # "ok"
           THEN /\ lastAccounts' = fetch
                /\ UNCHANGED accounts
           ELSE /\ accounts' = out.accounts
                /\ lastAccounts' = out.err
        /\ UNCHANGED <<factoryModels, lastModels>>
        /\ UNCHANGED signVars
        /\ UNCHANGED keyVars
        /\ UNCHANGED pushVars
        /\ UNCHANGED startVars

\* datastore SyncModel: store the model under (brand-id, model-name).
SyncModel(rows, m) ==
    { row \in rows : ~(row.BrandID = m.BrandID /\ row.Name = m.Name) } \cup {m}

\* The loop of Models from entry i on; fault is the entry at which
\* SyncModel returns an error (0: none).
RECURSIVE SyncModels(_, _, _, _)
SyncModels(list, i, rows, fault) ==
    IF i > Len(list) THEN [models |-> rows, err |-> "nil"]
    ELSE IF fault = i THEN [models |-> rows, err |-> "SyncModel"]
    ELSE SyncModels(list, i + 1, SyncModel(rows, list[i]), fault)

\* One run of Models; fetch is the upstream's answer to FetchModels.
\* (The constant Models above is the model table the signing service reads.)
ModelsSync(fetch, fault) ==
    LET out == SyncModels(UpstreamModels, 1, factoryModels, fault)
    IN  /\ IF fetch # "ok"
           THEN /\ lastModels' = fetch
                /\ UNCHANGED factoryModels
           ELSE /\ factoryModels' = out.models
                /\ lastModels' = out.err
        /\ UNCHANGED <<accounts, lastAccounts>>
        /\ UNCHANGED signVars
        /\ UNCHANGED keyVars
        /\ UNCHANGED pushVars
        /\ UNCHANGED startVars

Fetches == {"ok", "error", "not-success"}

NextSync ==
    \/ \E fetch \in Fetches, fault \in SyncFaults : SigningKeys(fetch, fault)
    \/ \E fetch \in Fetches, fault \in 0..Len(UpstreamAccounts) :
            Accounts(fetch, fault)
    \/ \E fetch \in Fetches, fault \in 0..Len(UpstreamModels) :
            ModelsSync(fetch, fault)

SyncSpec == Init /\ [][NextSync]_vars

(***************************************************************************)
(* Factory replication: SigningLogs and TestLogs                           *)
(***************************************************************************)
\* What SendSigningLog and SendTestLog return, and whether the upstream
\* stored the entry.
SendOK == [success |-> TRUE, err |-> "nil"]
SendNotSuccess == [success |-> FALSE, err |-> "nil"]
SendError == [success |-> FALSE, err |-> "error"]

Received(send) == send = SendOK

\* The upstream stores one more copy of an entry.
OneMore(copies) == Min(copies + 1, 2)

\* The outcome of one entry of a push run: the answer to the send and the
\* error of the datastore call that follows a successful send.
PushOutcomes ==
    { [send |-> SendOK, mark |-> "nil"],
      [send |-> SendOK, mark |-> "error"],
      [send |-> SendNotSuccess, mark |-> "nil"],
      [send |-> SendError, mark |-> "nil"] }

\* `if err != nil || !success`.  Faulty variant: a failed send is taken for
\* a successful one.
SendFailed_Ignored(send) == FALSE

SendFailed(send) == send.err # "nil" \/ ~send.success

\* datastore SyncSigningLog: the rows not yet synced, in ID order.
Unsynced(row) == ~row.Synced
SyncSigningLog(rows) == SelectSeq(rows, Unsynced)

\* datastore SyncUpdateSigningLog: set the synced flag of row id.
SyncUpdateSigningLog(rows, id) ==
    [i \in 1..Len(rows) |->
        IF rows[i].ID = id THEN [rows[i] EXCEPT !.Synced = TRUE] ELSE rows[i]]

\* The loop of SigningLogs from entry i of logs on; out gives the outcome of
\* every entry by ID.
RECURSIVE SendSigningLogs(_, _, _, _, _)
SendSigningLogs(logs, i, rows, cloud, out) ==
    IF i > Len(logs) THEN [signinglog |-> rows, cloud |-> cloud]
    ELSE LET l == logs[i]
             cloud1 == IF Received(out[l.ID].send)
                       THEN [cloud EXCEPT ![l.ID] = OneMore(@)] ELSE cloud
         IN  IF SendFailed(out[l.ID].send)
             THEN SendSigningLogs(logs, i + 1, rows, cloud1, out)
             ELSE IF out[l.ID].mark # "nil"
             THEN SendSigningLogs(logs, i + 1, rows, cloud1, out)
             ELSE SendSigningLogs(logs, i + 1,
                                  SyncUpdateSigningLog(rows, l.ID), cloud1, out)

\* The IDs of a list of rows.
IDsOf(logs) == { logs[i].ID : i \in 1..Len(logs) }

\* One run of SigningLogs; fault names the datastore call that returns an
\* error before the loop, if any.
SigningLogs(fault, out) ==
    LET logs == SyncSigningLog(signinglog)
        run == SendSigningLogs(logs, 1, signinglog, cloudSigningLogs, out)
    IN  /\ fault = "none" => out \in [IDsOf(logs) -> PushOutcomes]
        /\ IF fault = "SyncSigningLog"
           THEN UNCHANGED <<signinglog, cloudSigningLogs>>
           ELSE /\ signinglog' = run.signinglog
                /\ cloudSigningLogs' = run.cloud
        /\ UNCHANGED <<now, nonces, issued, pc, req, model, signingLog,
                       serialAssertion, result, hist, accepted>>
        /\ UNCHANGED keyVars
        /\ UNCHANGED pullVars
        /\ UNCHANGED startVars
        /\ UNCHANGED <<testlogs, testLogSeq, cloudTestLogs>>

\* The factory records a test log under the next ID.
CreateTestLog ==
    /\ testLogSeq < MaxTestLogs
    /\ testLogSeq' = testLogSeq + 1
    /\ testlogs' = testlogs \cup {[ID |-> testLogSeq + 1]}
    /\ UNCHANGED <<cloudSigningLogs, cloudTestLogs>>
    /\ UNCHANGED signVars
    /\ UNCHANGED keyVars
    /\ UNCHANGED pullVars
    /\ UNCHANGED startVars

\* datastore SyncListTestLogs: the rows of the table, in ID order.
RECURSIVE SyncListTestLogs(_)
SyncListTestLogs(rows) ==
    IF rows = {} THEN << >>
    ELSE LET last == CHOOSE r \in rows : \A q \in rows : q.ID <= r.ID
         IN  Append(SyncListTestLogs(rows \ {last}), last)

\* datastore SyncDeleteTestLog: remove row id.
SyncDeleteTestLog(rows, id) == { r \in rows : r.ID # id }

\* The loop of TestLogs from entry i of logs on.
RECURSIVE SendTestLogs(_, _, _, _, _)
SendTestLogs(logs, i, rows, cloud, out) ==
    IF i > Len(logs) THEN [testlogs |-> rows, cloud |-> cloud]
    ELSE LET l == logs[i]
             cloud1 == IF Received(out[l.ID].send)
                       THEN [cloud EXCEPT ![l.ID] = OneMore(@)] ELSE cloud
         IN  IF SendFailed(out[l.ID].send)
             THEN SendTestLogs(logs, i + 1, rows, cloud1, out)
             ELSE IF out[l.ID].mark # "nil"
             THEN SendTestLogs(logs, i + 1, rows, cloud1, out)
             ELSE SendTestLogs(logs, i + 1, SyncDeleteTestLog(rows, l.ID),
                               cloud1, out)

\* One run of TestLogs.
TestLogs(fault, out) ==
    LET logs == SyncListTestLogs(testlogs)
        run == SendTestLogs(logs, 1, testlogs, cloudTestLogs, out)
    IN  /\ fault = "none" => out \in [IDsOf(logs) -> PushOutcomes]
        /\ IF fault = "SyncListTestLogs"
           THEN UNCHANGED <<testlogs, cloudTestLogs>>
           ELSE /\ testlogs' = run.testlogs
                /\ cloudTestLogs' = run.cloud
        /\ UNCHANGED <<testLogSeq, cloudSigningLogs>>
        /\ UNCHANGED signVars
        /\ UNCHANGED keyVars
        /\ UNCHANGED pullVars
        /\ UNCHANGED startVars

\* The factory instance: one worker signing for one device under fresh
\* nonces, test logs being recorded, and the two push tasks.
PushRequests ==
    { Request("/serial", "K1",
              <<Doc("serial-request", "acme", "rpi", "SN1", "", n)>>) :
        n \in NonceIDs }

NextPush ==
    \/ \E p \in Worker : RequestID(p, "K1", "none")
    \/ \E p \in Worker, r \in PushRequests : SerialValidate(p, r)
    \/ \E p \in Worker : SerialConvert(p, "none")
    \/ \E p \in Worker : SerialSign(p, "none")
    \/ \E p \in Worker : Return(p)
    \/ CreateTestLog
    \/ \E out \in [IDsOf(SyncSigningLog(signinglog)) -> PushOutcomes] :
            SigningLogs("none", out)
    \/ SigningLogs("SyncSigningLog", << >>)
    \/ \E out \in [IDsOf(SyncListTestLogs(testlogs)) -> PushOutcomes] :
            TestLogs("none", out)
    \/ TestLogs("SyncListTestLogs", << >>)

PushSpec == Init /\ [][NextPush]_vars

\* Start-up of the service and the tests of GetKeyStore.
NextStartup ==
    \/ \E config \in Configs : ReadConfig(config)
    \/ OpenKeyStore
    \/ TestGetKeyStoreFilesystem
    \/ TestGetKeyStoreInvalid

StartupSpec == Init /\ [][NextStartup]_vars

(***************************************************************************)
(* Properties                                                              *)
(***************************************************************************)
\* The serial-request and the api key of the call worker p serves.
AssertionOf(p) == SerialDecode(req[p]).assertion
APIKeyOf(p) == SerialDecode(req[p]).apiKey

IsSerial(p) == req[p].Path = "/serial"
Done(p) == pc[p] = "done"
RanResolution(p) == IsSerial(p) /\ hist[p].Resolution # NoResponse

\* In this step worker p's Serial call reached ValidateDeviceNonce.
ConsumeStep(p) ==
    /\ pc[p] = "idle" /\ pc'[p] # "idle"
    /\ req'[p].Path = "/serial"
    /\ SerialDecode(req'[p]).resp.Success

ConsumedNonce(p) == SerialDecode(req'[p]).assertion.RequestID
ConsumeOK(p) == pc'[p] = "resolve"

HasRow(rows, n) == \E row \in rows : row.Nonce = n

\* C1: of the consumes of a nonce by concurrent Serial calls, the one that
\* finds the nonce live returns ok and removes its row; no consume returns ok
\* unless its delete removed the row, none returns ok for a nonce already
\* accepted once, and every consume that is not ok returns invalid-nonce.
C1_NonceSingleUse ==
    [][\A p \in Procs : ConsumeStep(p) =>
         LET n == ConsumedNonce(p)
         IN  /\ (\E row \in nonces : row.Nonce = n /\ row.Expiry >= now)
                  => ConsumeOK(p)
             /\ ConsumeOK(p) =>
                  /\ HasRow(issued, n)
                  /\ HasRow(nonces, n) /\ ~HasRow(nonces', n)
                  /\ accepted[n] = 0 /\ accepted'[n] = 1
             /\ ~ConsumeOK(p) =>
                  /\ result'[p].resp = ErrorInvalidNonce
                  /\ nonces' = nonces
                  /\ accepted' = accepted]_vars

\* Two calls presented the same issued nonce: one was accepted, the other got
\* invalid-nonce.
C1_Witness ==
    \E p \in Procs : \E q \in Procs \ {p} :
        /\ IsSerial(p) /\ hist[p].NonceOK
        /\ IsSerial(q) /\ Done(q) /\ result[q].resp = ErrorInvalidNonce
        /\ AssertionOf(p).RequestID = AssertionOf(q).RequestID
        /\ HasRow(issued, AssertionOf(p).RequestID)
        /\ accepted[AssertionOf(p).RequestID] = 1

\* The rows of the signing log for the device of row r.
RowsOf(r) == { i \in 1..Len(signinglog) : SameDevice(signinglog[i], r) }

\* C2: for every (brand, model, serial) the revisions in the signing log are
\* exactly 1..k, each carried by one row.
C2_RevisionsContiguous ==
    \A i \in 1..Len(signinglog) :
        /\ { signinglog[j].Revision : j \in RowsOf(signinglog[i]) }
             = 1..Cardinality(RowsOf(signinglog[i]))
        /\ \A j \in RowsOf(signinglog[i]) :
             j # i => signinglog[j].Revision # signinglog[i].Revision

\* The serial Serial signs for: the header, else the body.
SerialOf(a) == IF a.Serial = "" THEN a.BodySerial ELSE a.Serial

\* C3: a Serial call that returned success appended exactly one row, with the
\* request's brand, model and serial, the computed revision and the request's
\* sign-key fingerprint; a call still before the persist step, or failed
\* before it, appended none.
C3_LogMatchesOutcome ==
    \A p \in Procs : IsSerial(p) =>
        /\ (Done(p) /\ result[p].resp.Success) =>
             \E i \in 1..Len(signinglog) :
                /\ hist[p].Logged = {i}
                /\ signinglog[i].ID = i
                /\ signinglog[i].Make = AssertionOf(p).BrandID
                /\ signinglog[i].Model = AssertionOf(p).Model
                /\ signinglog[i].SerialNumber = SerialOf(AssertionOf(p))
                /\ signinglog[i].Fingerprint = AssertionOf(p).SignKeyID
                /\ signinglog[i].Revision = signingLog[p].Revision
                /\ Sprintf_d(signinglog[i].Revision)
                     = result[p].body.assertion.revision
        /\ (Done(p) /\ ~result[p].resp.Success
              /\ result[p].resp # ErrorLoggingAssertion) => hist[p].Logged = {}
        /\ pc[p] \in {"resolve", "sign"} => hist[p].Logged = {}
        /\ (Done(p) /\ ~result[p].resp.Success) => result[p].body = NoSigned

\* A re-sign has succeeded: the call's row carries revision 2.
C3_Witness ==
    \E p \in Procs :
        /\ IsSerial(p) /\ Done(p) /\ result[p].resp.Success
        /\ \E i \in hist[p].Logged : signinglog[i].Revision = 2

\* Every upstream keypair is stored locally.
AllSynced ==
    \A i \in 1..Len(UpstreamKeypairs) :
        GetKeypairByPublicID(keypairs, UpstreamKeypairs[i].AuthorityID,
                             UpstreamKeypairs[i].KeyID) = "nil"

\* C4: a SigningKeys run leaves every keypair row and every setting row that
\* is already stored as it is (sealed key and auth-key hash of the run that
\* first stored them); a run that returns nil has stored every upstream
\* keypair, and once they all are stored further runs change nothing.
C4_SigningKeysIdempotent ==
    [][/\ \A row \in keypairs : row \in keypairs'
       /\ \A row \in settings : row \in settings'
       /\ AllSynced => (keypairs' = keypairs /\ settings' = settings)
       /\ lastSigningKeys' = "nil" => AllSynced']_vars

\* After a complete first sync and at least one more answered run, every
\* keypair and setting is still the one sealed for the first answer.
C4_Witness ==
    /\ fetches >= 2 /\ lastSigningKeys = "nil"
    /\ Cardinality(keypairs) = Len(UpstreamKeypairs)
    /\ \A row \in keypairs : row.SealedKey[3] = 1
    /\ Cardinality(settings) = Len(UpstreamKeypairs)
    /\ \A row \in settings : row.Data[3] = 1

\* The lookups of model resolution for the call of worker p.
DirectOf(p) ==
    FindModel(AssertionOf(p).BrandID, AssertionOf(p).Model, APIKeyOf(p))
SubstoreOf(p) ==
    GetSubstoreModel(AssertionOf(p).BrandID, AssertionOf(p).Model,
                     AssertionOf(p).Serial)

DirectFound(p) == DirectOf(p).err = "nil"
SubstoreRow(p) == SubstoreOf(p).err = "nil"
SubstoreKeyMatches(p) ==
    SubstoreRow(p) /\ SubstoreOf(p).substore.FromModel.APIKey = APIKeyOf(p)

SignedNothing(p) ==
    hist[p].Signed = NoSigned /\ hist[p].Logged = {} /\ result[p].body = NoSigned

\* C5 as stated: a successful resolution rests on the direct lookup or on a
\* sub-store row with the presented api key; and whenever a sub-store row
\* exists with another api key, resolution fails with invalid-model-substore
\* and the call signs and logs nothing.
C5_AsStated ==
    \A p \in Procs : RanResolution(p) =>
        /\ hist[p].Resolution.Success => (DirectFound(p) \/ SubstoreKeyMatches(p))
        /\ (SubstoreRow(p) /\ ~SubstoreKeyMatches(p)) =>
             /\ hist[p].Resolution = ErrorInvalidModelSubstore
             /\ Done(p) /\ result[p].resp = ErrorInvalidModelSubstore
             /\ SignedNothing(p)

\* C5: a successful resolution rests on the direct lookup or on a sub-store
\* row with the presented api key; when the direct lookup finds nothing and a
\* sub-store row exists with another api key, resolution fails with
\* invalid-model-substore and the call signs and logs nothing.
C5_ResolveByKey ==
    \A p \in Procs : RanResolution(p) =>
        /\ hist[p].Resolution.Success => (DirectFound(p) \/ SubstoreKeyMatches(p))
        /\ (~DirectFound(p) /\ SubstoreRow(p) /\ ~SubstoreKeyMatches(p)) =>
             /\ hist[p].Resolution = ErrorInvalidModelSubstore
             /\ Done(p) /\ result[p].resp = ErrorInvalidModelSubstore
             /\ SignedNothing(p)

\* A pivot presented with the wrong api key was refused.
C5_Witness ==
    \E p \in Procs :
        /\ RanResolution(p) /\ ~DirectFound(p)
        /\ SubstoreRow(p) /\ ~SubstoreKeyMatches(p)
        /\ Done(p) /\ result[p].resp = ErrorInvalidModelSubstore

\* C6: when neither the direct lookup nor the sub-store lookup finds a row,
\* resolution fails with invalid-model.
C6_NotFoundIsInvalidModel ==
    \A p \in Procs :
        (RanResolution(p) /\ ~DirectFound(p) /\ ~SubstoreRow(p)) =>
            /\ hist[p].Resolution = ErrorInvalidModel
            /\ Done(p) /\ result[p].resp = ErrorInvalidModel

\* The pivot case: no direct row, a sub-store row with the presented api key.
PivotCase(p) == ~DirectFound(p) /\ SubstoreKeyMatches(p)
FromModelOf(p) == SubstoreOf(p).substore.FromModel

SignedWith(signed, m) ==
    /\ signed.AuthorityID = m.AuthorityID
    /\ signed.KeyID = m.KeyID
    /\ signed.SealedKey = m.SealedKey

\* C7: in the pivot case resolution returns the from-model; an inactive
\* from-model key is refused with inactive-model; whatever the call signs is
\* signed with the from-model's authority-id, key-id and sealed key; and with
\* an active key and no datastore or keystore failure the call succeeds and
\* emits the assertion so signed.
C7_PivotSignsWithFromModel ==
    \A p \in Procs : (RanResolution(p) /\ PivotCase(p)) =>
        /\ hist[p].Resolution.Success
        /\ model[p] = FromModelOf(p)
        /\ ~FromModelOf(p).KeyActive =>
             /\ Done(p) /\ result[p].resp = ErrorInactiveModel
             /\ SignedNothing(p)
        /\ hist[p].Signed # NoSigned => SignedWith(hist[p].Signed, FromModelOf(p))
        /\ (Done(p) /\ FromModelOf(p).KeyActive /\ hist[p].Faults = {}) =>
             /\ result[p].resp.Success
             /\ result[p].body # NoSigned
             /\ SignedWith(result[p].body, FromModelOf(p))
             /\ result[p].body.assertion.model = AssertionOf(p).Model

\* A pivoted request was signed.
C7_Witness ==
    \E p \in Procs :
        /\ RanResolution(p) /\ PivotCase(p)
        /\ Done(p) /\ result[p].resp.Success
        /\ SignedWith(result[p].body, FromModelOf(p))

\* C8: when the direct lookup finds the model, the sub-store is not queried
\* and that model is the one resolved, sub-store row or not.
C8_DirectFirst ==
    \A p \in Procs : (RanResolution(p) /\ DirectFound(p)) =>
        /\ ~hist[p].SubstoreQueried
        /\ hist[p].Direct
        /\ hist[p].Resolution.Success
        /\ model[p] = DirectOf(p).model

\* The direct lookup succeeded for a request that also has a sub-store row.
C8_Witness ==
    \E p \in Procs :
        /\ RanResolution(p) /\ DirectFound(p) /\ SubstoreRow(p)
        /\ model[p] = DirectOf(p).model

\* C9: an authorised RequestID call whose expired-nonce sweep failed still
\* created and returned a fresh nonce.
C9_SweepFailureDoesNotBlock ==
    \A p \in Procs :
        (/\ Done(p) /\ req[p].Path = "/request-id"
         /\ CheckModelAPI(req[p]).err = "nil"
         /\ hist[p].Faults = {"DeleteExpiredDeviceNonces"}) =>
            /\ result[p].resp.Success
            /\ HasRow(issued, result[p].RequestID)

\* C10: the consume of an issued nonce that no call has consumed is ok at
\* every now <= expiry and invalid-nonce at every now > expiry, whether its
\* row is still stored or was swept; the rejected call logs nothing.
C10_ExpiryBoundary ==
    [][\A p \in Procs : ConsumeStep(p) =>
         \A i \in issued :
            (i.Nonce = ConsumedNonce(p) /\ accepted[i.Nonce] = 0) =>
               /\ i.Expiry = i.IssuedAt + NonceTTL
               /\ now <= i.Expiry => ConsumeOK(p)
               /\ now > i.Expiry =>
                    /\ ~ConsumeOK(p)
                    /\ Done(p)' /\ result'[p].resp = ErrorInvalidNonce
                    /\ hist'[p].Logged = {}
                    /\ signinglog' = signinglog]_vars

\* An issued, never consumed nonce was refused after its expiry while its
\* row was still stored.
C10_Witness ==
    \E p \in Procs : \E i \in issued :
        /\ IsSerial(p) /\ Done(p) /\ result[p].resp = ErrorInvalidNonce
        /\ AssertionOf(p).RequestID = i.Nonce
        /\ accepted[i.Nonce] = 0
        /\ now > i.Expiry
        /\ HasRow(nonces, i.Nonce)

\* In this step worker p's Serial call ran model resolution and the key check.
ResolveStep(p) == pc[p] = "resolve" /\ pc'[p] # "resolve"

\* C11: a Serial call whose resolved model has key-active false returns
\* inactive-model in the step that resolved it: nothing is signed, nothing is
\* written on the response, and the signing log is left as it was, whatever
\* the request and whatever the tables hold.
C11_InactiveRefused ==
    [][\A p \in Procs :
         (/\ ResolveStep(p)
          /\ hist'[p].Resolution.Success
          /\ ~model'[p].KeyActive) =>
            /\ pc'[p] = "done"
            /\ result'[p].resp = ErrorInactiveModel
            /\ result'[p].body = NoSigned
            /\ hist'[p].Signed = NoSigned /\ hist'[p].Logged = {}
            /\ serialAssertion'[p] = NoAssertion
            /\ signinglog' = signinglog]_vars

\* With a row already in the signing log, a call whose sub-store from-model
\* has an inactive key was refused.
C11_Witness ==
    \E p \in Procs :
        /\ RanResolution(p) /\ hist[p].Resolution.Success
        /\ model[p] # NoModel /\ ~model[p].KeyActive
        /\ ~hist[p].Direct
        /\ Done(p) /\ result[p].resp = ErrorInactiveModel
        /\ Len(signinglog) >= 1

\* The rows of the signing log for the device of worker p's request.
PriorOf(p) ==
    { i \in 1..Len(signinglog) :
        /\ signinglog[i].Make = AssertionOf(p).BrandID
        /\ signinglog[i].Model = AssertionOf(p).Model
        /\ signinglog[i].SerialNumber = SerialOf(AssertionOf(p)) }

\* In this step worker p's Serial call ran SignAssertion and CreateSigningLog.
SignStep(p) == pc[p] = "sign" /\ pc'[p] = "done"

\* C12: a duplicate does not abort signing.  When serialRequestToSerial runs
\* without a datastore failure, rows for the device or not, the call goes on
\* to sign; the revision set on the log entry and on the assertion header is
\* the largest revision of the device's rows + 1 (1 with no row, 2 with one
\* row); and when signing and persisting do not fail the call succeeds, emits
\* the assertion with that revision and appends its entry after the earlier
\* rows, which all stay.
C12_DuplicateAdvisory ==
    [][\A p \in Procs :
         /\ (/\ ResolveStep(p)
             /\ hist'[p].Resolution.Success /\ model'[p].KeyActive
             /\ SerialOf(AssertionOf(p)) # ""
             /\ hist'[p].Faults = {}) =>
               LET max == MaxOf({ signinglog[i].Revision : i \in PriorOf(p) })
               IN  /\ pc'[p] = "sign"
                   /\ hist'[p].Duplicate = (PriorOf(p) # {})
                   /\ signingLog'[p].Revision = max + 1
                   /\ serialAssertion'[p].revision = Sprintf_d(max + 1)
                   /\ PriorOf(p) = {} => signingLog'[p].Revision = 1
                   /\ Cardinality(PriorOf(p)) = 1 => signingLog'[p].Revision = 2
         /\ (SignStep(p) /\ hist'[p].Faults = {}) =>
               /\ result'[p].resp.Success
               /\ result'[p].body.assertion.revision
                    = Sprintf_d(signingLog[p].Revision)
               /\ Len(signinglog') = Len(signinglog) + 1
               /\ SubSeq(signinglog', 1, Len(signinglog)) = signinglog
               /\ signinglog'[Len(signinglog')].Revision = signingLog[p].Revision
               /\ signinglog'[Len(signinglog')].SerialNumber
                    = SerialOf(AssertionOf(p))]_vars

\* A re-sign reported as a duplicate succeeded with revision 2, and the row
\* of the first signing is still there.
C12_Witness ==
    \E p \in Procs :
        /\ IsSerial(p) /\ Done(p) /\ result[p].resp.Success
        /\ hist[p].Duplicate
        /\ result[p].body.assertion.revision = <<2>>
        /\ Len(signinglog) = 2
        /\ SameDevice(signinglog[1], signinglog[2])
        /\ signinglog[1].Revision = 1 /\ signinglog[2].Revision = 2

\* The call of worker p resolved an active model and reached
\* serialRequestToSerial.
RanConvert(p) ==
    /\ RanResolution(p) /\ hist[p].Resolution.Success /\ model[p].KeyActive

\* C13: for a request without a serial header, a serial key in the body is
\* the serial of the assertion and of the log entry, and the call succeeds
\* when no datastore or keystore call fails; with no serial in the body
\* either, Serial fails with the kind empty-serial.
C13_SerialFromBodyElseEmptySerial ==
    \A p \in Procs : (RanConvert(p) /\ AssertionOf(p).Serial = "") =>
        /\ (AssertionOf(p).BodySerial # "" /\ hist[p].Faults = {}) =>
             /\ serialAssertion[p].serial = AssertionOf(p).BodySerial
             /\ signingLog[p].SerialNumber = AssertionOf(p).BodySerial
             /\ Done(p) => result[p].resp.Success
        /\ AssertionOf(p).BodySerial = "" =>
             /\ Done(p)
             /\ ~result[p].resp.Success
             /\ result[p].resp.Code = "empty-serial"

\* C14: when SignAssertion succeeded and CreateSigningLog failed, Serial
\* returns logging-assertion and writes no assertion on the response; the
\* signing log is as it was before the call; the nonce of the call has no
\* row left, and any later call that presents it gets invalid-nonce.
C14_LogFailureSurfaced ==
    [][\A p \in Procs :
         /\ (SignStep(p) /\ "CreateSigningLog" \in hist'[p].Faults) =>
               /\ hist'[p].Signed # NoSigned
               /\ result'[p].resp = ErrorLoggingAssertion
               /\ result'[p].body = NoSigned
               /\ hist'[p].Logged = {}
               /\ signinglog' = signinglog
               /\ ~HasRow(nonces', AssertionOf(p).RequestID)
               /\ accepted'[AssertionOf(p).RequestID] >= 1
         /\ (ConsumeStep(p) /\ accepted[ConsumedNonce(p)] >= 1) =>
               /\ ~ConsumeOK(p)
               /\ result'[p].resp = ErrorInvalidNonce]_vars

\* A call was signed, failed to persist and returned logging-assertion.
C14_Witness ==
    \E p \in Procs :
        /\ IsSerial(p) /\ Done(p)
        /\ hist[p].Signed # NoSigned
        /\ hist[p].Faults = {"CreateSigningLog"}
        /\ result[p].resp = ErrorLoggingAssertion
        /\ HasRow(issued, AssertionOf(p).RequestID)
        /\ ~HasRow(nonces, AssertionOf(p).RequestID)

\* C15: every failure response of Serial carries a 4xx status, except the
\* kinds signing-assertion and logging-assertion, which carry a 5xx status.
C15_StatusFollowsKind ==
    \A p \in Procs : (IsSerial(p) /\ Done(p) /\ ~result[p].resp.Success) =>
        IF result[p].resp.Code \in {"signing-assertion", "logging-assertion"}
        THEN result[p].resp.StatusCode \in 500..599
        ELSE result[p].resp.StatusCode \in 400..499

\* C16: the upstream receives every signing-log entry at most once, and an
\* entry marked synced exactly once, whatever sends and marks failed in the
\* SigningLogs runs so far.
C16_UploadedOnce ==
    \A i \in 1..Len(signinglog) :
        /\ cloudSigningLogs[signinglog[i].ID] <= 1
        /\ signinglog[i].Synced => cloudSigningLogs[signinglog[i].ID] = 1

\* The IDs of the unsynced signing-log rows and of the stored test logs.
UnsyncedIDs(rows) == IDsOf(SyncSigningLog(rows))
TestLogIDsOf(rows) == { r.ID : r \in rows }

\* C17: a signing-log entry becomes synced, and a test log is deleted, only
\* in a step in which the upstream received it; an entry the upstream did
\* not receive in a step is left as it was, so it is among the unsynced
\* entries (the stored test logs) the next run is given; hence every synced
\* entry and every deleted test log is one the upstream holds.
C17_PushKeepsFailed ==
    /\ [][/\ \A i \in 1..Len(signinglog) :
               /\ (~signinglog[i].Synced /\ signinglog'[i].Synced) =>
                     /\ cloudSigningLogs'[i] = OneMore(cloudSigningLogs[i])
                     /\ cloudSigningLogs'[i] >= 1
               /\ (~signinglog[i].Synced /\ cloudSigningLogs[i] < 2
                     /\ cloudSigningLogs'[i] = cloudSigningLogs[i]) =>
                     /\ signinglog'[i] = signinglog[i]
                     /\ i \in UnsyncedIDs(signinglog')
           /\ \A r \in testlogs :
               /\ r \notin testlogs' =>
                     /\ cloudTestLogs'[r.ID] = OneMore(cloudTestLogs[r.ID])
                     /\ cloudTestLogs'[r.ID] >= 1
               /\ (cloudTestLogs[r.ID] < 2
                     /\ cloudTestLogs'[r.ID] = cloudTestLogs[r.ID]) =>
                     /\ r \in testlogs'
                     /\ r.ID \in IDsOf(SyncListTestLogs(testlogs'))]_vars
    /\ [](/\ \A i \in 1..Len(signinglog) :
               signinglog[i].Synced => cloudSigningLogs[i] >= 1
           /\ \A id \in 1..testLogSeq :
               id \notin TestLogIDsOf(testlogs) => cloudTestLogs[id] >= 1)

\* A SigningLogs run was given two entries: the first never reached the
\* upstream and is still unsynced, the second was sent and is marked synced;
\* and a TestLogs run has deleted a test log the upstream received.
C17_Witness ==
    /\ Len(signinglog) = 2
    /\ ~signinglog[1].Synced /\ cloudSigningLogs[1] = 0
    /\ signinglog[2].Synced /\ cloudSigningLogs[2] = 1
    /\ testLogSeq >= 1 /\ 1 \notin TestLogIDsOf(testlogs)
    /\ cloudTestLogs[1] = 1

\* The upstream entries a factory table does not hold.
MissingKeypairs(rows) ==
    { i \in 1..Len(UpstreamKeypairs) :
        GetKeypairByPublicID(rows, UpstreamKeypairs[i].AuthorityID,
                             UpstreamKeypairs[i].KeyID) # "nil" }
MissingSettings(rows) ==
    { i \in 1..Len(UpstreamKeypairs) :
        ~\E row \in rows :
            row.Code = GenerateAuthKey(UpstreamKeypairs[i].AuthorityID,
                                       UpstreamKeypairs[i].KeyID) }
MissingAccounts(rows) ==
    { i \in 1..Len(UpstreamAccounts) : UpstreamAccounts[i] \notin rows }
MissingModels(rows) ==
    { i \in 1..Len(UpstreamModels) : UpstreamModels[i] \notin rows }

\* C18: a replication run in which one entry failed has still processed
\* every other entry of its batch: after a run of Accounts, SigningKeys or
\* Models that fetched its list and failed on an entry, at most that entry
\* is missing from the factory table.
C18_BatchContinues ==
    [][/\ (lastAccounts' = "SyncAccount"
            /\ <<accounts, lastAccounts>>' # <<accounts, lastAccounts>>) =>
              Cardinality(MissingAccounts(accounts')) <= 1
       /\ (lastSigningKeys' \in {"SyncKeypair", "PutSetting"}
            /\ fetches' = fetches + 1) =>
              /\ Cardinality(MissingKeypairs(keypairs')) <= 1
              /\ Cardinality(MissingSettings(settings')) <= 1
       /\ (lastModels' = "SyncModel"
            /\ <<factoryModels, lastModels>>' # <<factoryModels, lastModels>>) =>
              Cardinality(MissingModels(factoryModels')) <= 1]_vars

\* C19: for a configuration whose keystore-type is recognised (filesystem
\* among them) GetKeyStore returns a keystore and no error; for every other
\* keystore-type it returns an error, the configuration-error, and no
\* keystore; and the two tests of GetKeyStore report nothing.
C19_KeyStoreByType ==
    /\ keystore # NoKeyStore =>
         IF Environ.Config.KeyStoreType \in {"filesystem", "encrypted"}
         THEN /\ keystore.err = "nil"
              /\ keystore.keystore # NilKeyStore
              /\ keystore.keystore.Type = Environ.Config.KeyStoreType
         ELSE /\ keystore.err = "configuration-error"
              /\ keystore.keystore = NilKeyStore
    /\ failedTests = {}

\* GetKeyStore has refused the keystore-type "database".
C19_Witness ==
    /\ Environ.Config.KeyStoreType = "database"
    /\ keystore.err = "configuration-error"

\* The checks of a request that come before the nonce, one by one, in the
\* order authenticate, decode-primary, decode-optional-model, stream-ended,
\* type-check primary, type and match check of the optional model: the
\* response of the first that fails, Success when none does.
StepsBeforeNonce(r) ==
    IF \A m \in Models : m.APIKey # r.APIKey THEN ErrorInvalidAPIKey
    ELSE IF Len(r.Body) = 0 THEN ErrorEmptyData
    ELSE IF r.Body[1].Type = "malformed" THEN ErrorInvalidAssertion
    ELSE IF Len(r.Body) >= 2 /\ r.Body[2].Type = "malformed"
         THEN ErrorInvalidAssertion
    ELSE IF Len(r.Body) >= 3 THEN ErrorInvalidAssertion
    ELSE IF r.Body[1].Type # "serial-request" THEN ErrorInvalidType
    ELSE IF Len(r.Body) = 2 /\ r.Body[2].Type # "model"
         THEN ErrorInvalidSecondType
    ELSE IF Len(r.Body) = 2
            /\ (r.Body[2].BrandID # r.Body[1].BrandID
                \/ r.Body[2].Model # r.Body[1].Model)
         THEN ErrorMismatchedModel
    ELSE Success

\* The nonce a request presents (0 when it carries no assertion).
NonceOf(r) == IF Len(r.Body) = 0 THEN 0 ELSE r.Body[1].RequestID

\* C20: Serial returns the failure of the first failing step.  A request
\* rejected by one of the six checks before the nonce leaves the nonce table
\* as it was, so its nonce can still be used; a request that passes them
\* consumes its nonce or gets invalid-nonce; then model resolution is
\* reported before the inactive key; and a call rejected after the nonce
\* step has no nonce row left and has appended nothing to the signing log.
C20_FirstFailureThenNonce ==
    [][\A p \in Procs :
         /\ (pc[p] = "idle" /\ pc'[p] # "idle" /\ req'[p].Path = "/serial") =>
               LET r == req'[p]
                   n == NonceOf(r)
               IN  IF ~StepsBeforeNonce(r).Success
                   THEN /\ pc'[p] = "done"
                        /\ result'[p].resp = StepsBeforeNonce(r)
                        /\ nonces' = nonces
                        /\ accepted' = accepted
                        /\ signinglog' = signinglog
                   ELSE IF \E row \in nonces : row.Nonce = n /\ row.Expiry >= now
                   THEN /\ pc'[p] = "resolve"
                        /\ ~HasRow(nonces', n)
                        /\ signinglog' = signinglog
                   ELSE /\ pc'[p] = "done"
                        /\ result'[p].resp = ErrorInvalidNonce
                        /\ signinglog' = signinglog
         /\ ResolveStep(p) =>
               IF ~(DirectFound(p) \/ SubstoreKeyMatches(p))
               THEN /\ pc'[p] = "done"
                    /\ ~result'[p].resp.Success
                    /\ result'[p].resp = hist'[p].Resolution
                    /\ result'[p].resp # ErrorInactiveModel
               ELSE ~model'[p].KeyActive =>
                    /\ pc'[p] = "done"
                    /\ result'[p].resp = ErrorInactiveModel
         /\ (pc[p] \in {"resolve", "sign"} /\ pc'[p] = "done"
               /\ ~result'[p].resp.Success) =>
               /\ ~HasRow(nonces', NonceOf(req[p]))
               /\ accepted'[NonceOf(req[p])] >= 1
               /\ signinglog' = signinglog
               /\ hist'[p].Logged = {}]_vars

\* A request presenting a live nonce was rejected by the match check of its
\* model assertion, and the nonce is still stored and live.
C20_Witness ==
    \E p \in Procs :
        /\ IsSerial(p) /\ Done(p) /\ result[p].resp = ErrorMismatchedModel
        /\ \E row \in nonces :
              row.Nonce = NonceOf(req[p]) /\ row.Expiry >= now

\* The auth-key hash the cloud sent with a stored keypair: the one of the
\* answer that carried its sealed key.
AuthKeyHashOf(row) == <<"hash", row.KeyID, row.SealedKey[3]>>

\* C21: after any runs of SigningKeys, failed ones included, every keypair
\* the factory stores has its setting row: the code derived from its
\* authority-id and key-id, the data that keypair's auth-key hash.
C21_KeypairHasSetting ==
    \A row \in keypairs :
        [Code |-> GenerateAuthKey(row.AuthorityID, row.KeyID),
         Data |-> AuthKeyHashOf(row)] \in settings

====
